---- MODULE Spec2Model ----
(***************************************************************************)
(* The cgroup hierarchy manager of porto (src/cgroup.cpp): the interning   *)
(* registry of TCgroup nodes, Create / Remove / Kill / Attach / IsEmpty /  *)
(* FindChildren, over a small model of the kernel objects they touch (the  *)
(* mount table, the directory tree, the cgroup membership of processes).   *)
(***************************************************************************)
EXTENDS Integers, Sequences, FiniteSets, TLC

\* ------------------------------------------------------------------ bounds
MaxNodes == 2
MaxLevel == 1
MaxPid == 1
MaxChildren == 1
\* The registry of the lookup-only specification (DeepSpec): more nodes, deeper.
DeepNodes == 4
DeepLevel == 3
\* The registry of the snapshot specification (SnapSpec).
SnapNodes == 3
SnapChildren == 2
\* A container start: registry nodes and levels, two leaf cgroups at most.
LaunchNodes == 4
LaunchLevel == 1
\* AllocLoop: sizes of up to MaxGiB * 2^30 + MaxRest bytes.
MaxGiB == 4
MaxRest == 1
\* StringWithUnitToUint64: numbers of one digit followed by up to MaxZeros zeros.
MaxZeros == 19
\* RetryBusy, RetryFailed: times of up to MaxTimes; SleepWhile: timeouts of up
\* to MaxTimeo milliseconds either side of zero.
MaxTimes == 2
MaxTimeo == 10
\* The threads that call Create() at the same time.
MaxThreads == 2
\* The volume manager: volumes, containers, and tune() calls per volume.
MaxVolumes == 1
MaxContainers == 2
MaxTunes == 1

\* ---------------------------------------------------------------- universe
\* Controller names, in the order std::set<std::string> iterates them.
SortedNames == <<"cpu", "memory">>
SubsystemNames == {SortedNames[i] : i \in 1..Len(SortedNames)}
\* Directory names of child cgroups, in the order a directory listing gives them.
SortedChildNames == <<"a">>
ChildNames == {SortedChildNames[i] : i \in 1..Len(SortedChildNames)}
Pids == 1..MaxPid
\* The null shared_ptr<TCgroup> / shared_ptr<TMount>.
NoParent == 0
NoMount == [source |-> "", mountpoint |-> "", vfstype |-> "", mntflags |-> 0,
            flags |-> {}]
tmpfs == "/sys/fs/cgroup"

Range(s) == {s[i] : i \in 1..Len(s)}

\* ------------------------------------------------------------ util/string
RECURSIVE JoinFrom(_, _, _)
JoinFrom(list, i, first) ==
    IF i > Len(SortedNames) THEN ""
    ELSE IF SortedNames[i] \in list
         THEN (IF first THEN "" ELSE ",") \o SortedNames[i]
              \o JoinFrom(list, i + 1, FALSE)
         ELSE JoinFrom(list, i + 1, first)

\* CommaSeparatedList(const set<string>&): the elements in set order, joined by ",".
CommaSeparatedList(list) == JoinFrom(list, 1, TRUE)

\* ------------------------------------------------------------------ TMount
TMount(source, mountpoint, vfstype, mntflags, flags) ==
    [source |-> source, mountpoint |-> mountpoint, vfstype |-> vfstype,
     mntflags |-> mntflags, flags |-> flags]

\* operator==(TMount, TMount): structural on all five fields.
MountEq(m1, m2) ==
    /\ m1.source = m2.source
    /\ m1.mountpoint = m2.mountpoint
    /\ m1.vfstype = m2.vfstype
    /\ m1.mntflags = m2.mntflags
    /\ m1.flags = m2.flags

\* The shared tmpfs anchor that Create() builds on its stack.
AnchorMount == TMount("cgroup", tmpfs, "tmpfs", 0, {})

\* ----------------------------------------------------------------- TCgroup
\* TCgroup(name, parent, level): no mount, no subsystems.
NewCgroup(name, parent) ==
    [name |-> name, parent |-> parent, mount |-> NoMount, subsystems |-> <<>>,
     children |-> <<>>]

\* TCgroup(mount, subsystems)
NewRootAt(mount, subsystems) ==
    [name |-> "/", parent |-> NoParent, mount |-> mount,
     subsystems |-> subsystems, children |-> <<>>]

\* TCgroup(subsystems): the mount descriptor is synthesized from the names.
NewRoot(subsystems) ==
    LET flags == Range(subsystems)
    IN [name |-> "/", parent |-> NoParent,
        mount |-> TMount("cgroup", tmpfs \o "/" \o CommaSeparatedList(flags),
                         "cgroup", 0, flags),
        subsystems |-> subsystems, children |-> <<>>]

\* operator==(const TCgroup&, const TCgroup&): subsystems are compared as
\* vectors of interned handles, element by element.
CgroupEq(c1, c2) ==
    IF c1.name # c2.name THEN FALSE
    ELSE IF c1.parent # c2.parent THEN FALSE
    ELSE IF c1.parent = NoParent /\ c2.parent = NoParent
         THEN c1.subsystems = c2.subsystems
         ELSE TRUE

IsRoot(c) == c.parent = NoParent

\* --------------------------------------------------------------- TRegistry
\* TRegistry<TCgroup>::Get(item): the handle of the first registered node
\* equal to item, or of a fresh copy appended to the registry.
RegistryFind(reg, item) ==
    LET hits == {i \in 1..Len(reg) : CgroupEq(reg[i], item)}
    IN IF hits = {} THEN 0 ELSE CHOOSE i \in hits : \A j \in hits : i <= j

RegistryHandle(reg, item) ==
    IF RegistryFind(reg, item) # 0 THEN RegistryFind(reg, item) ELSE Len(reg) + 1

RegistryGet(reg, item) ==
    IF RegistryFind(reg, item) # 0 THEN reg ELSE Append(reg, item)

\* ------------------------------------------------------------------- state
VARIABLES
    registry,   \* TRegistry<TCgroup>: the interned nodes; a handle is an index
    mounts,     \* the live mount table (TMountSnapshot reads it), in mount order
    dirs,       \* directories outside any cgroup filesystem (tmpfs / host layer)
    cgdirs,     \* child cgroup directories of the kernel hierarchies, by path
    attached,   \* <<path, pid>>: pid is listed in the tasks file of cgroup path
    alive,      \* the processes that have not exited
    signalled,  \* the processes that were sent SIGINT
    ignoring,   \* the processes that ignore SIGINT
    rm,         \* the Remove() call in progress: its position, node and syscalls
    last,       \* the last completed operation: what it was given, did and returned
    crashed,    \* the supervisor dereferenced a null mount pointer
    Volumes,    \* the volume registry: the TVolume of each volume created
    containers, \* the containers that are alive
    files,      \* the regular files at the paths AllocLoop is given
    threads     \* where each thread that is inside Create() stands

\* The state of the cgroup manager and of the kernel objects it touches.
cgroupVars == <<registry, mounts, dirs, cgdirs, attached, alive, signalled, ignoring,
             rm, crashed>>
\* The state of the volume manager and of the files below it.
storage == <<Volumes, containers, files>>

vars == <<registry, mounts, dirs, cgdirs, attached, alive, signalled, ignoring,
          rm, last, crashed, Volumes, containers, files, threads>>

Handles == 1..Len(registry)

\* TCgroup::Path(): the mount point of the root, then the names down to the node.
RECURSIVE Path(_, _)
Path(reg, n) ==
    IF IsRoot(reg[n]) THEN <<reg[n].mount.mountpoint>>
    ELSE Append(Path(reg, reg[n].parent), reg[n].name)

\* Path() with a root answering its name instead of its mount point.
RECURSIVE PathNameOfName(_, _)
PathNameOfName(reg, n) ==
    IF IsRoot(reg[n]) THEN reg[n].name
    ELSE PathNameOfName(reg, reg[n].parent) \o "/" \o reg[n].name

\* TCgroup::Path() as the string it returns.
RECURSIVE PathName(_, _)
PathName(reg, n) ==
    IF IsRoot(reg[n]) THEN reg[n].mount.mountpoint
    ELSE PathName(reg, reg[n].parent) \o "/" \o reg[n].name

RECURSIVE Level(_, _)
Level(reg, n) == IF IsRoot(reg[n]) THEN 0 ELSE 1 + Level(reg, reg[n].parent)

RECURSIVE RootOf(_, _)
RootOf(reg, n) == IF IsRoot(reg[n]) THEN n ELSE RootOf(reg, reg[n].parent)

\* Path() and Create()/Remove() dereference the root's mount pointer.
HasMount(reg, n) == reg[RootOf(reg, n)].mount # NoMount

\* ------------------------------------------------------------------ kernel
\* The kernel objects as one value, threaded through the calls of an operation.
Kernel == [mounts |-> mounts, dirs |-> dirs, cgdirs |-> cgdirs,
           attached |-> attached, calls |-> {}]

\* A system call an operation issued: its name, the path it was given, the pid
\* it signalled (kill only) and whether the kernel carried it out.
Call(name, arg, ok) == [call |-> name, arg |-> arg, pid |-> 0, ok |-> ok]
KillCall(arg, pid, ok) == [call |-> "kill", arg |-> arg, pid |-> pid, ok |-> ok]

\* A cgroup filesystem is mounted at mountpoint mp.
CgroupMounted(k, mp) ==
    \E i \in 1..Len(k.mounts) :
        k.mounts[i].mountpoint = mp /\ k.mounts[i].vfstype = "cgroup"

AnyMounted(k, mp) == \E i \in 1..Len(k.mounts) : k.mounts[i].mountpoint = mp

\* The directories a lookup of path p sees: below a mounted cgroup filesystem
\* the kernel hierarchy, elsewhere the plain directories.
InCgroupFs(k, p) == Len(p) > 1 /\ CgroupMounted(k, p[1])
Layer(k, p) == IF InCgroupFs(k, p) THEN k.cgdirs ELSE k.dirs

\* TFolder::Exists()
FolderExists(k, p) == p \in Layer(k, p)

ParentDir(p) == SubSeq(p, 1, Len(p) - 1)

\* TFolder::Subfolders(): the names of the directories directly below p.
Subfolders(k, p) ==
    {s \in ChildNames : Append(p, s) \in Layer(k, Append(p, s))}

TasksOf(k, p) == {pid \in Pids : <<p, pid>> \in k.attached}

\* TFolder::Create(mode): mkdir(2).
Mkdir(k, p, faults) ==
    LET ok == /\ <<"mkdir", p>> \notin faults
              /\ ~FolderExists(k, p)
              /\ (Len(p) = 1 \/ FolderExists(k, ParentDir(p)))
        c == Call("mkdir", p, ok)
    IN IF ~ok THEN [k EXCEPT !.calls = @ \cup {c}]
       ELSE IF InCgroupFs(k, p)
            THEN [k EXCEPT !.cgdirs = @ \cup {p}, !.calls = @ \cup {c}]
            ELSE [k EXCEPT !.dirs = @ \cup {p}, !.calls = @ \cup {c}]

\* TFolder::Remove(): rmdir(2).
Rmdir(k, p) ==
    LET ok == /\ FolderExists(k, p)
              /\ Subfolders(k, p) = {}
              /\ (Len(p) = 1 => ~AnyMounted(k, p[1]))
              /\ (InCgroupFs(k, p) => TasksOf(k, p) = {})
        c == Call("rmdir", p, ok)
    IN IF ~ok THEN [k EXCEPT !.calls = @ \cup {c}]
       ELSE IF InCgroupFs(k, p)
            THEN [k EXCEPT !.cgdirs = @ \ {p}, !.calls = @ \cup {c}]
            ELSE [k EXCEPT !.dirs = @ \ {p}, !.calls = @ \cup {c}]

\* TMount::Mount(): mount(2) of the descriptor; the anchor's directory is the
\* host's own.
Mount(k, m, faults) ==
    LET ok == /\ <<"mount", <<m.mountpoint>>>> \notin faults
              /\ (m.mountpoint = tmpfs \/ <<m.mountpoint>> \in k.dirs)
        c == Call("mount", <<m.mountpoint>>, ok)
    IN IF ok THEN [k EXCEPT !.mounts = Append(@, m), !.calls = @ \cup {c}]
       ELSE [k EXCEPT !.calls = @ \cup {c}]

\* TMount::Umount(): umount(2) of the mount point, which detaches the mount
\* that was attached there last.
Umount(k, m) ==
    LET at == {i \in 1..Len(k.mounts) : k.mounts[i].mountpoint = m.mountpoint}
        top == CHOOSE i \in at : \A j \in at : j <= i
        c == Call("umount", <<m.mountpoint>>, at # {})
    IN IF at = {} THEN [k EXCEPT !.calls = @ \cup {c}]
       ELSE [k EXCEPT !.mounts = SubSeq(@, 1, top - 1) \o SubSeq(@, top + 1, Len(@)),
                      !.calls = @ \cup {c}]

\* A write of pid to cgroup.procs below p (TFile::AppendString): the kernel
\* moves a live process into the cgroup; outside a cgroup filesystem, or for a
\* directory that is absent, the write fails.
WriteProcs(k, p, pid, live) ==
    LET ok == InCgroupFs(k, p) /\ p \in k.cgdirs /\ pid \in live
        c == [call |-> "write", arg |-> p, pid |-> pid, ok |-> ok]
    IN IF ~ok THEN [k EXCEPT !.calls = @ \cup {c}]
       ELSE [k EXCEPT !.attached =
                         {e \in @ : ~(e[2] = pid /\ e[1][1] = p[1])} \cup {<<p, pid>>},
                      !.calls = @ \cup {c}]

\* -------------------------------------------------------- tasks file, stoi
Digits == <<"0", "1", "2", "3", "4", "5", "6", "7", "8", "9">>
DigitValue(ch) == CHOOSE d \in 0..9 : Digits[d + 1] = ch
IsDigit(ch) == \E d \in 0..9 : Digits[d + 1] = ch

\* std::to_string(pid) for the pids of the model, as the kernel prints a line
\* of the tasks file: a sequence of characters.
RECURSIVE PidToString(_)
PidToString(v) == IF v < 10 THEN <<Digits[v + 1]>>
               ELSE Append(PidToString(v \div 10), Digits[(v % 10) + 1])

\* std::stoi: the leading digits of the line; it throws on a line that starts
\* with no digit (BadInteger).
BadInteger == 0 - 1
RECURSIVE StoiFrom(_, _, _)
StoiFrom(l, i, acc) ==
    IF i > Len(l) \/ ~IsDigit(l[i]) THEN acc
    ELSE StoiFrom(l, i + 1, acc * 10 + DigitValue(l[i]))
Stoi(l) == IF Len(l) = 0 \/ ~IsDigit(l[1]) THEN BadInteger ELSE StoiFrom(l, 1, 0)

\* A uint64_t as four 16-bit limbs, the lowest first.
Limb == 65536
Zero64 == <<0, 0, 0, 0>>

\* v * m + carry over the limbs from i on: the limbs and the carry out of the top.
RECURSIVE MulAddFrom(_, _, _, _)
MulAddFrom(v, i, m, carry) ==
    IF i > Len(v) THEN [limbs |-> <<>>, carry |-> carry]
    ELSE LET t == v[i] * m + carry
             rest == MulAddFrom(v, i + 1, m, t \div Limb)
         IN [limbs |-> <<t % Limb>> \o rest.limbs, carry |-> rest.carry]

\* value <<= 10 on a uint64_t: the bits shifted out of the top are lost.
ShiftLeft10(v) == MulAddFrom(v, 1, 1024, 0).limbs

\* std::stoull(str, &pos): the leading digits of str; it throws
\* invalid_argument when str starts with no digit and out_of_range when the
\* number does not fit 64 bits.
RECURSIVE StoullFrom(_, _, _)
StoullFrom(str, i, acc) ==
    IF i > Len(str) \/ ~IsDigit(str[i])
    THEN [threw |-> FALSE, value |-> acc, pos |-> i - 1]
    ELSE LET r == MulAddFrom(acc, 1, 10, DigitValue(str[i]))
         IN IF r.carry # 0 THEN [threw |-> TRUE, value |-> acc, pos |-> 0]
            ELSE StoullFrom(str, i + 1, r.limbs)

Stoull(str) ==
    IF Len(str) = 0 \/ ~IsDigit(str[1])
    THEN [threw |-> TRUE, value |-> Zero64, pos |-> 0]
    ELSE StoullFrom(str, 1, Zero64)

\* The switch with a break after every case: each unit shifts once.
UnitShiftsWithBreaks(ch) ==
    IF ch \in {"G", "g", "M", "m", "K", "k"} THEN 1 ELSE 0

\* How often the switch on the character after the number shifts by ten:
\* G falls through M and K.
UnitShifts(ch) ==
    IF ch \in {"G", "g"} THEN 3
    ELSE IF ch \in {"M", "m"} THEN 2
    ELSE IF ch \in {"K", "k"} THEN 1
    ELSE 0

RECURSIVE ShiftTimes(_, _)
ShiftTimes(v, n) == IF n = 0 THEN v ELSE ShiftTimes(ShiftLeft10(v), n - 1)

\* StringWithUnitToUint64(str, value): value is left as it was when stoull throws.
StringWithUnitToUint64(str, value) ==
    LET r == Stoull(str)
    IN IF r.threw THEN [err |-> "Unknown", value |-> value]
       ELSE IF r.pos > 0 /\ r.pos < Len(str)
            THEN [err |-> "Success",
                  value |-> ShiftTimes(r.value, UnitShifts(str[r.pos + 1]))]
            ELSE [err |-> "Success", value |-> r.value]

\* StringsToIntegers(strings, integers): appends until the first bad line.
RECURSIVE StringsToIntegers(_, _)
StringsToIntegers(strings, integers) ==
    IF strings = <<>> THEN [err |-> "Success", integers |-> integers]
    ELSE IF Stoi(Head(strings)) = BadInteger
         THEN [err |-> "Unknown", integers |-> integers]
         ELSE StringsToIntegers(Tail(strings), Append(integers, Stoi(Head(strings))))

\* The lines of the tasks file of cgroup p, in ascending pid order.
RECURSIVE TaskLines(_, _, _)
TaskLines(k, p, pid) ==
    IF pid > MaxPid THEN <<>>
    ELSE (IF <<p, pid>> \in k.attached THEN <<PidToString(pid)>> ELSE <<>>)
         \o TaskLines(k, p, pid + 1)

\* TCgroup::GetKnobValueAsLines("tasks"): TFile::AsLines fails when the file
\* cannot be opened or read (fault, or no cgroup directory at the path).
GetKnobValueAsLines(k, p, fault) ==
    IF fault \/ ~(InCgroupFs(k, p) /\ p \in k.cgdirs)
    THEN [err |-> "Unknown", lines |-> <<>>]
    ELSE [err |-> "Success", lines |-> TaskLines(k, p, 1)]

\* TCgroup::GetTasks(tasks)
GetTasks(k, p, fault) ==
    LET ret == GetKnobValueAsLines(k, p, fault)
    IN IF ret.err # "Success" THEN [err |-> ret.err, integers |-> <<>>]
       ELSE StringsToIntegers(ret.lines, <<>>)

\* TCgroup::IsEmpty(): the error of GetTasks is dropped.
IsEmpty(k, p, fault) == GetTasks(k, p, fault).integers = <<>>

\* ------------------------------------------------------------ TCgroup::Create
\* The scan with the handles compared instead of the mounts they point to: a
\* descriptor built by the caller is never the object of the snapshot.
MountPresentByHandle(k, m) == FALSE

\* The scan of the live mount table for a mount equal to m.
MountPresent(k, m) == \E i \in 1..Len(k.mounts) : MountEq(k.mounts[i], m)

\* The system calls of Create() that the kernel may refuse.
RECURSIVE FaultPoints(_, _)
FaultPoints(reg, n) ==
    IF IsRoot(reg[n])
    THEN {<<"mount", <<tmpfs>>>>, <<"mount", Path(reg, n)>>, <<"mkdir", Path(reg, n)>>}
    ELSE FaultPoints(reg, reg[n].parent) \cup {<<"mkdir", Path(reg, n)>>}

\* The kernel after Create() of node n; no result of a call is looked at.
RECURSIVE CreateRun(_, _, _, _)
CreateRun(reg, n, k, faults) ==
    LET c == reg[n]
        first == IF IsRoot(c)
                 THEN (IF ~MountPresent(k, AnchorMount)
                       THEN Mount(k, AnchorMount, faults) ELSE k)
                 ELSE CreateRun(reg, c.parent, k, faults)
        folder == IF ~FolderExists(first, Path(reg, n))
                  THEN Mkdir(first, Path(reg, n), faults) ELSE first
    IN IF IsRoot(c) /\ MountPresent(k, c.mount) THEN k
       ELSE IF IsRoot(c) THEN Mount(folder, c.mount, faults)
       ELSE folder

\* Create() of a root by a thread of its own, one system call at a time. A
\* thread outside Create() is idle; mount_root is the local of that name.
ThreadIds == 1..MaxThreads
NoThreads == [t \in ThreadIds |-> [pc |-> "idle", node |-> 0, mount_root |-> FALSE]]

\* What Create() returns: TError() on every path.
CreateRet(k) == "Success"

\* Create() below a root that has no mount: the scan dereferences the null mount
\* at the first entry of the table; with an empty table the anchor is mounted
\* before Path() dereferences it.
CreateCrash(k, faults) ==
    IF Len(k.mounts) = 0 THEN Mount(k, AnchorMount, faults) ELSE k

\* ------------------------------------------------------------ TCgroup::Attach
\* The kernel after Attach(pid): a root is left alone.
AttachRun(reg, n, k, pid, live) ==
    IF ~IsRoot(reg[n]) THEN WriteProcs(k, Path(reg, n), pid, live) ELSE k

\* What Attach() returns: 0, whatever SetKnobValue returned.
AttachRet(k) == "Success"

\* -------------------------------------------------------------- TTask::Start
\* The leaf cgroups in the order the map is walked.
RECURSIVE LeafSeq(_)
LeafSeq(leaves) ==
    IF leaves = {} THEN <<>>
    ELSE LET n == CHOOSE x \in leaves : \A y \in leaves : x <= y
         IN <<n>> \o LeafSeq(leaves \ {n})

\* TTask::SyncTaskCgroups(pid): Attach(pid) on every leaf cgroup, stopping at
\* the first error an Attach() returns.
RECURSIVE SyncTaskCgroups(_, _, _, _, _)
SyncTaskCgroups(reg, leaves, k, pid, live) ==
    IF leaves = <<>> THEN [k |-> k, ret |-> "Success"]
    ELSE LET k1 == AttachRun(reg, Head(leaves), k, pid, live)
             ret == AttachRet(k1)
         IN IF ret # "Success" THEN [k |-> k1, ret |-> ret]
            ELSE SyncTaskCgroups(reg, Tail(leaves), k1, pid, live)

\* -------------------------------------------------------------- TCgroup::Kill
\* Kill() with its root test inverted: a non-root signals nobody.
KillTargetsInverted(reg, n, k, fault) ==
    IF ~IsRoot(reg[n]) THEN {}
    ELSE Range(GetTasks(k, Path(reg, n), fault).integers)

\* The pids Kill(signal) signals: those GetTasks read; none for a root.
KillTargets(reg, n, k, fault) ==
    IF IsRoot(reg[n]) THEN {}
    ELSE Range(GetTasks(k, Path(reg, n), fault).integers)

\* ------------------------------------------------------ TCgroup::FindChildren
RECURSIVE FindChildrenFrom(_, _, _, _, _, _)
\* The loop over f.Subfolders() from the i-th name on, then ret.push_back(self).
FindChildrenFrom(reg, k, n, self, i, ret) ==
    IF i > Len(SortedChildNames) THEN [reg |-> reg, ret |-> Append(ret, self)]
    ELSE IF SortedChildNames[i] \notin Subfolders(k, Path(reg, n))
         THEN FindChildrenFrom(reg, k, n, self, i + 1, ret)
         ELSE LET item == NewCgroup(SortedChildNames[i], self)
                  cg == RegistryHandle(reg, item)
                  reg1 == RegistryGet(reg, item)
                  reg2 == [reg1 EXCEPT ![n].children = Append(@, cg)]
                  sub == FindChildrenFrom(reg2, k, cg,
                                          RegistryHandle(reg2, reg2[cg]), 1, <<>>)
              IN FindChildrenFrom(sub.reg, k, n, self, i + 1, ret \o sub.ret)

\* FindChildren() of node n: the registry afterwards and the list returned.
FindChildrenRun(reg, k, n) ==
    FindChildrenFrom(reg, k, n, RegistryHandle(reg, reg[n]), 1, <<>>)

\* ---------------------------------------------------------- TCgroupSnapshot
\* The controllers the snapshot knows, of which the model has SubsystemNames.
supported_subsystems == SubsystemNames

\* The controller handles of a mount with known controllers cs, one handle per
\* controller: each is TSubsystem::Get(name) with name the comma-joined list.
Controllers(cs) == [i \in 1..Cardinality(cs) |-> CommaSeparatedList(cs)]

\* The loop over ms.Mounts() from the i-th mount on: the registry, the flat
\* list, the subsystem map and, per mount with a known controller, what its
\* iteration did.
RECURSIVE SnapshotFrom(_, _, _, _, _, _)
SnapshotFrom(reg, k, i, cgroups, subsystems, walks) ==
    IF i > Len(k.mounts)
    THEN [reg |-> reg, cgroups |-> cgroups, subsystems |-> subsystems,
          walks |-> walks]
    ELSE LET mount == k.mounts[i]
             cs == mount.flags \cap supported_subsystems
             cg_controllers == Controllers(cs)
             map == [c \in DOMAIN subsystems \cup cs |->
                        IF c \in cs THEN cg_controllers[1] ELSE subsystems[c]]
             item == NewRootAt(mount, cg_controllers)
             root == RegistryHandle(reg, item)
             reg1 == RegistryGet(reg, item)
             found == FindChildrenRun(reg1, k, root)
             walk == [mount |-> i, cs |-> cs, root |-> root,
                      added |-> <<root>> \o found.ret,
                      walked |-> TRUE,
                      children |-> Len(found.reg[root].children)
                                       - Len(reg1[root].children)]
         IN IF cs = {}
            THEN SnapshotFrom(reg, k, i + 1, cgroups, subsystems, walks)
            ELSE SnapshotFrom(found.reg, k, i + 1,
                              cgroups \o <<root>> \o found.ret, map,
                              Append(walks, walk))

\* TCgroupSnapshot(): the snapshot of the live mount table.
SnapshotRun(reg, k) == SnapshotFrom(reg, k, 1, <<>>, <<>>, <<>>)

\* ----------------------------------------------------------------- inputs
\* The vectors of subsystem handles a caller passes to GetRoot.
SubsystemVectors ==
    {<<a>> : a \in SubsystemNames}
        \cup {<<a, b>> : <<a, b>> \in {e \in SubsystemNames \X SubsystemNames :
                                        e[1] # e[2]}}

\* Cgroup mounts a caller may have found outside the default location.
ForeignMounts ==
    {TMount("cgroup", "/mnt/memory", "cgroup", 0, {"memory"})}

\* The mount descriptors a caller passes to GetRoot(mount, subsystems): the one
\* TCgroup(subsystems) would synthesize, or a mount of the same controllers
\* found elsewhere.
MountsFor(subsystems) ==
    {NewRoot(subsystems).mount}
        \cup {m \in ForeignMounts : m.flags = Range(subsystems)}

\* --------------------------------------------------------------- outcomes
NoOutcome ==
    [op |-> "Init", node |-> 0, item |-> NewCgroup("", NoParent), pid |-> 0,
     ret |-> "", list |-> <<>>, calls |-> {}, existed |-> FALSE,
     mounted |-> FALSE, anchored |-> FALSE, tasks |-> {}, changed |-> FALSE,
     map |-> <<>>, walks |-> <<>>, volume |-> 0, blocked |-> FALSE,
     path |-> "", size |-> [gib |-> 0, rest |-> 0], before |-> {},
     str |-> <<>>, value |-> <<>>,
     times |-> 0, handler |-> <<>>, errno |-> "", interrupted |-> 0,
     invoked |-> 0, result |-> 0]

Idle == [pc |-> "idle", node |-> 0, calls |-> {}, existed |-> FALSE,
         changed |-> FALSE]

Changed(k) == k.mounts # mounts \/ k.dirs # dirs \/ k.cgdirs # cgdirs

\* The operation op on node n dereferenced the null mount of a parentless node
\* built by TCgroup(name, parent): the supervisor dies with SIGSEGV.
Crash(op, n) ==
    /\ crashed' = TRUE
    /\ last' = [NoOutcome EXCEPT !.op = "Crash", !.node = n, !.ret = op]

Ready == ~crashed /\ rm.pc = "idle"

\* ----------------------------------------------------------------- TVolume
VolumeIds == 1..MaxVolumes
ContainerIds == 1..MaxContainers

\* TVolumeLink(v, c): ReadOnly, Required and Busy start false.
TVolumeLink(container) ==
    [Container |-> container, ReadOnly |-> FALSE, Required |-> FALSE,
     Busy |-> FALSE]

\* A TVolume as constructed: the member initializers of the class; trace is
\* every value State has held, in order.
TVolume ==
    [State |-> "UNREADY", trace |-> <<"UNREADY">>, Links |-> <<>>]

\* TVolume::SetState(state)
SetState(v, state) == [v EXCEPT !.State = state, !.trace = Append(@, state)]

\* The Volumes map with volume id bound to v.
WithVolume(map, id, v) ==
    [i \in DOMAIN map \cup {id} |-> IF i = id THEN v ELSE map[i]]

\* A volume that any required link of a live container blocks.
DestroyableIgnoringRequired(v, live) == TRUE

\* A volume is destroyable when its links hold no required entry owned by a
\* live container.
Destroyable(v, live) ==
    \A i \in 1..Len(v.Links) :
        ~(v.Links[i].Required /\ v.Links[i].Container \in live)

\* TVolume::Create(spec, volume): Configure, then Build, which may fail.
VolumeCreate(id, built) ==
    /\ id \notin DOMAIN Volumes
    /\ LET v == SetState(SetState(TVolume, "CONFIGURED"), "BUILDING")
       IN Volumes' = WithVolume(Volumes, id,
                         SetState(v, IF built THEN "READY" ELSE "UNREADY"))
    /\ last' = [NoOutcome EXCEPT !.op = "VolumeCreate", !.volume = id,
                    !.ret = IF built THEN "Success" ELSE "Unknown"]
    /\ UNCHANGED <<containers, files>>
    /\ UNCHANGED <<cgroupVars, threads>>

\* TVolume::LinkVolume(container, target, read_only, required)
LinkVolume(id, container, required) ==
    /\ id \in DOMAIN Volumes
    /\ container \in containers
    /\ LET v == Volumes[id]
           linked == \E i \in 1..Len(v.Links) : v.Links[i].Container = container
           link == [TVolumeLink(container) EXCEPT !.Required = required]
           ret == IF v.State # "READY" THEN "VolumeNotReady"
                  ELSE IF linked THEN "Busy" ELSE "Success"
       IN /\ Volumes' = IF ret = "Success"
                        THEN WithVolume(Volumes, id,
                                 [v EXCEPT !.Links = Append(@, link)])
                        ELSE Volumes
          /\ last' = [NoOutcome EXCEPT !.op = "LinkVolume", !.volume = id,
                                       !.pid = container, !.ret = ret]
    /\ UNCHANGED <<containers, files>>
    /\ UNCHANGED <<cgroupVars, threads>>

\* TVolume::UnlinkVolume(container, target, unlinked, strict): the links of the
\* container go; a volume left without links becomes UNLINKED.
UnlinkVolume(id, container) ==
    /\ id \in DOMAIN Volumes
    /\ LET v == Volumes[id]
           rest == SelectSeq(v.Links, LAMBDA l : l.Container # container)
           ret == IF v.State # "READY" THEN "VolumeNotReady"
                  ELSE IF rest = v.Links THEN "NotFound" ELSE "Success"
           left == [v EXCEPT !.Links = rest]
       IN /\ Volumes' = IF ret # "Success" THEN Volumes
                        ELSE WithVolume(Volumes, id,
                                 IF rest = <<>> THEN SetState(left, "UNLINKED")
                                 ELSE left)
          /\ last' = [NoOutcome EXCEPT !.op = "UnlinkVolume", !.volume = id,
                                       !.pid = container, !.ret = ret]
    /\ UNCHANGED <<containers, files>>
    /\ UNCHANGED <<cgroupVars, threads>>

\* TVolume::DeleteOne(): TO_DESTROY, DESTROYING, the backend's Delete, DESTROYED.
DeleteOne(v) ==
    [SetState(SetState(SetState(v, "TO_DESTROY"), "DESTROYING"), "DESTROYED")
        EXCEPT !.Links = <<>>]

\* TVolume::Delete(): Busy while a required link of a live container holds the
\* volume; Success on a volume that is DESTROYED.
VolumeDelete(id) ==
    /\ id \in DOMAIN Volumes
    /\ LET v == Volumes[id]
           ret == IF v.State = "DESTROYED" THEN "Success"
                  ELSE IF v.State \notin {"READY", "UNLINKED"} THEN "VolumeNotReady"
                  ELSE IF ~Destroyable(v, containers) THEN "Busy"
                  ELSE "Success"
       IN /\ Volumes' = IF ret = "Success" /\ v.State # "DESTROYED"
                        THEN WithVolume(Volumes, id, DeleteOne(v))
                        ELSE Volumes
          /\ last' = [NoOutcome EXCEPT
                 !.op = "VolumeDelete", !.volume = id, !.ret = ret,
                 !.blocked = \E i \in 1..Len(v.Links) :
                                 /\ v.Links[i].Required
                                 /\ v.Links[i].Container \in containers]
    /\ UNCHANGED <<containers, files>>
    /\ UNCHANGED <<cgroupVars, threads>>

\* TVolume::Tune(cfg): READY, TUNING while the backend resizes, READY.
Tune(id) ==
    /\ id \in DOMAIN Volumes
    /\ LET v == Volumes[id]
           tunes == Len(SelectSeq(v.trace, LAMBDA st : st = "TUNING"))
           ret == IF v.State = "READY" THEN "Success" ELSE "VolumeNotReady"
       IN /\ tunes < MaxTunes
          /\ Volumes' = IF ret = "Success"
                        THEN WithVolume(Volumes, id,
                                 SetState(SetState(v, "TUNING"), "READY"))
                        ELSE Volumes
          /\ last' = [NoOutcome EXCEPT !.op = "Tune", !.volume = id, !.ret = ret]
    /\ UNCHANGED <<containers, files>>
    /\ UNCHANGED <<cgroupVars, threads>>

\* A container dies; its links stay in the volumes.
ContainerExit(container) ==
    /\ container \in containers
    /\ containers' = containers \ {container}
    /\ last' = [NoOutcome EXCEPT !.op = "ContainerExit", !.pid = container]
    /\ UNCHANGED <<Volumes, files>>
    /\ UNCHANGED <<cgroupVars, threads>>

\* --------------------------------------------------------------- AllocLoop
\* A size of gib * 2^30 + rest bytes.
GiB == 1073741824
Sizes == [gib : 0..MaxGiB, rest : 0..MaxRest]

\* The paths AllocLoop is called with.
LoopPaths == {"/place/loop.img"}

\* The system calls of AllocLoop() that the kernel may refuse, and the mkfs
\* that may exit with a status other than zero.
LoopFaults == {"open", "ftruncate", "lseek", "write", "fork", "mkfs", "unlink"}

FileAt(fs, path) == {f \in fs : f.path = path}

\* size - 1 as the off_t that lseek is given: -1 for size 0.
SeekOffset(size) ==
    IF size.rest > 0 THEN [gib |-> size.gib, rest |-> size.rest - 1, neg |-> FALSE]
    ELSE IF size.gib > 0
         THEN [gib |-> size.gib - 1, rest |-> GiB - 1, neg |-> FALSE]
         ELSE [gib |-> 0, rest |-> 0, neg |-> TRUE]

\* int ret = lseek(...): the offset reached, cut to 32 bits, is below zero
\* when its bit 31 is set.
SeekRetNegative(offset) == (offset.gib \div 2) % 2 = 1

\* The size of a file whose last byte is at offset.
SizeUpTo(offset) ==
    IF offset.rest = GiB - 1 THEN [gib |-> offset.gib + 1, rest |-> 0]
    ELSE [gib |-> offset.gib, rest |-> offset.rest + 1]

\* remove_file: TFile(path).Remove(), its error dropped.
RemoveFile(fs, path, faults) ==
    IF "unlink" \in faults THEN fs ELSE fs \ FileAt(fs, path)

\* AllocLoop(path, size): the files after it and what it returns.
AllocLoop(fs, path, size, faults) ==
    LET new == [path |-> path, size |-> [gib |-> 0, rest |-> 0],
                formatted |-> FALSE, creator |-> "AllocLoop"]
        opened == fs \cup {new}
        offset == SeekOffset(size)
        failed == [files |-> RemoveFile(opened, path, faults), ret |-> "Unknown"]
    IN IF FileAt(fs, path) # {} \/ "open" \in faults
       THEN [files |-> fs, ret |-> "Unknown"]
       ELSE IF "ftruncate" \in faults THEN failed
       ELSE IF offset.neg \/ "lseek" \in faults \/ SeekRetNegative(offset)
            THEN failed
       ELSE IF "write" \in faults THEN failed
       ELSE IF "fork" \in faults THEN failed
       ELSE IF "mkfs" \in faults
            THEN [failed EXCEPT !.files =
                     RemoveFile(fs \cup {[new EXCEPT !.size = SizeUpTo(offset)]},
                                path, faults)]
       ELSE [files |-> fs \cup {[new EXCEPT !.size = SizeUpTo(offset),
                                            !.formatted = TRUE]},
             ret |-> "Success"]

\* A call of AllocLoop(path, size).
AllocLoopOp(path, size, faults) ==
    /\ LET r == AllocLoop(files, path, size, faults)
       IN /\ files' = r.files
          /\ last' = [NoOutcome EXCEPT !.op = "AllocLoop", !.ret = r.ret,
                                       !.path = path, !.size = size,
                                       !.before = files]
    /\ UNCHANGED <<Volumes, containers>>
    /\ UNCHANGED <<cgroupVars, threads>>

\* Somebody else creates a file at the path.
ForeignCreate(path, size) ==
    /\ FileAt(files, path) = {}
    /\ files' = files \cup {[path |-> path, size |-> size, formatted |-> FALSE,
                             creator |-> "other"]}
    /\ last' = [NoOutcome EXCEPT !.op = "ForeignCreate", !.path = path]
    /\ UNCHANGED <<Volumes, containers>>
    /\ UNCHANGED <<cgroupVars, threads>>

\* The file at the path is removed.
ForeignRemove(path) ==
    /\ FileAt(files, path) # {}
    /\ files' = files \ FileAt(files, path)
    /\ last' = [NoOutcome EXCEPT !.op = "ForeignRemove", !.path = path]
    /\ UNCHANGED <<Volumes, containers>>
    /\ UNCHANGED <<cgroupVars, threads>>

\* -------------------------------------------------------------- util/unix
\* What one invocation of a handler does: it returns 0 and leaves errno alone,
\* or it returns -1 with errno set.
HandlerResults ==
    {[ret |-> 0, errno |-> ""], [ret |-> 0 - 1, errno |-> "EBUSY"],
     [ret |-> 0 - 1, errno |-> "EIO"]}

\* A handler: what its first, second, ... invocation does.
Handlers == [1..MaxTimes -> HandlerResults]

\* errno on entry: 0 or what an earlier call left.
Errnos == {"", "EBUSY", "EIO"}

\* a / b as C divides: towards zero.
CDiv(a, b) == IF a >= 0 THEN a \div b ELSE 0 - ((0 - a) \div b)

\* The loop of RetryBusy from the i-th invocation on; interrupted: the sleep
\* that usleep fails (0: none).
RECURSIVE RetryBusyFrom(_, _, _, _, _, _)
RetryBusyFrom(times, i, ret, errno, handler, interrupted) ==
    IF ~(times > 0) THEN [ret |-> ret, invoked |-> i - 1]
    ELSE LET r == handler[i]
             e == IF r.errno = "" THEN errno ELSE r.errno
         IN IF e # "EBUSY" THEN [ret |-> r.ret, invoked |-> i]
            ELSE IF interrupted = i THEN [ret |-> 0 - 1, invoked |-> i]
            ELSE RetryBusyFrom(times - 1, i + 1, r.ret, e, handler, interrupted)

\* RetryBusy(times, timeoMs, handler), entered with errno.
RetryBusy(times, errno, handler, interrupted) ==
    RetryBusyFrom(IF times = 0 THEN 1 ELSE times, 1, 0, errno, handler, interrupted)

\* The loop of RetryFailed from the i-th invocation on.
RECURSIVE RetryFailedFrom(_, _, _, _, _)
RetryFailedFrom(times, i, ret, handler, interrupted) ==
    IF ~(times > 0) THEN [ret |-> ret, invoked |-> i - 1]
    ELSE LET r == handler[i]
         IN IF r.ret = 0 THEN [ret |-> r.ret, invoked |-> i]
            ELSE IF interrupted = i THEN [ret |-> 0 - 1, invoked |-> i]
            ELSE RetryFailedFrom(times - 1, i + 1, r.ret, handler, interrupted)

\* RetryFailed(times, timeoMs, handler)
RetryFailed(times, handler, interrupted) ==
    RetryFailedFrom(IF times = 0 THEN 1 ELSE times, 1, 0, handler, interrupted)

\* SleepWhile(timeoMs, handler): 'if (!times) times = 0' changes nothing.
resolution == 5
SleepWhile(timeoMs, handler, interrupted) ==
    RetryFailed(CDiv(timeoMs, resolution), handler, interrupted)

\* ------------------------------------------------------------- util calls
\* A call of RetryBusy.
RetryBusyOp(times, errno, handler, interrupted) ==
    /\ LET r == RetryBusy(times, errno, handler, interrupted)
       IN last' = [NoOutcome EXCEPT
              !.op = "RetryBusy", !.times = times, !.errno = errno,
              !.handler = handler, !.interrupted = interrupted,
              !.invoked = r.invoked, !.result = r.ret]
    /\ UNCHANGED storage
    /\ UNCHANGED <<cgroupVars, threads>>

\* A call of RetryFailed.
RetryFailedOp(times, handler, interrupted) ==
    /\ LET r == RetryFailed(times, handler, interrupted)
       IN last' = [NoOutcome EXCEPT
              !.op = "RetryFailed", !.times = times,
              !.handler = handler, !.interrupted = interrupted,
              !.invoked = r.invoked, !.result = r.ret]
    /\ UNCHANGED storage
    /\ UNCHANGED <<cgroupVars, threads>>

\* A call of SleepWhile; times is what it hands to RetryFailed.
SleepWhileOp(timeoMs, handler, interrupted) ==
    /\ LET r == SleepWhile(timeoMs, handler, interrupted)
       IN last' = [NoOutcome EXCEPT
              !.op = "SleepWhile", !.times = CDiv(timeoMs, resolution),
              !.handler = handler, !.interrupted = interrupted,
              !.invoked = r.invoked, !.result = r.ret]
    /\ UNCHANGED storage
    /\ UNCHANGED <<cgroupVars, threads>>

\* The strings StringWithUnitToUint64 is given: a digit, zeros, and a suffix
\* of at most one character.
RECURSIVE Zeros(_)
Zeros(n) == IF n = 0 THEN <<>> ELSE <<"0">> \o Zeros(n - 1)

Suffixes == {<<>>, <<"K">>, <<"k">>, <<"M">>, <<"m">>, <<"G">>, <<"g">>, <<"b">>}

\* The first digits: 10^19 fits 64 bits, 2 * 10^19 does not.
LeadDigits == {1, 2}

UnitStrings ==
    {<<Digits[d + 1]>> \o Zeros(z) \o x :
        d \in LeadDigits, z \in 0..MaxZeros, x \in Suffixes} \cup Suffixes

\* A call of StringWithUnitToUint64(str, value) with value zero before it.
StringWithUnitToUint64Op(str) ==
    /\ LET r == StringWithUnitToUint64(str, Zero64)
       IN last' = [NoOutcome EXCEPT !.op = "StringWithUnitToUint64",
                                   !.str = str, !.ret = r.err, !.value = r.value]
    /\ UNCHANGED storage
    /\ UNCHANGED <<cgroupVars, threads>>

\* ------------------------------------------------------------------- Init
\* No volume, every container alive, no file.
NoStorage ==
    /\ Volumes = <<>>
    /\ containers = ContainerIds
    /\ files = {}

\* The cgroup manager at rest on a host without cgroup mounts.
NoCgroups ==
    /\ registry = <<>>
    /\ mounts = <<>> /\ dirs = {} /\ cgdirs = {}
    /\ attached = {}
    /\ alive = Pids
    /\ signalled = {}
    /\ ignoring = {}
    /\ rm = Idle
    /\ crashed = FALSE
    /\ threads = NoThreads

InitialKernels ==
    {[mounts |-> <<>>, dirs |-> {}, cgdirs |-> {}],
     [mounts |-> <<AnchorMount, NewRoot(<<"cpu">>).mount>>,
      dirs |-> {<<NewRoot(<<"cpu">>).mount.mountpoint>>},
      cgdirs |-> {<<NewRoot(<<"cpu">>).mount.mountpoint, "a">>}]}

Init ==
    /\ registry = <<>>
    /\ \E k \in InitialKernels :
          mounts = k.mounts /\ dirs = k.dirs /\ cgdirs = k.cgdirs
    /\ attached = {}
    /\ alive = Pids
    /\ signalled = {}
    /\ ignoring \in SUBSET Pids
    /\ rm = Idle
    /\ last = NoOutcome
    /\ crashed = FALSE
    /\ threads = NoThreads
    /\ NoStorage

\* The mount tables the snapshot is taken of: those of InitialKernels, a memory
\* hierarchy mounted outside the default location, the same hierarchy mounted
\* at both places, and two controllers mounted together.
SnapKernels ==
    InitialKernels \cup
    {[mounts |-> <<m>>, dirs |-> {<<m.mountpoint>>},
      cgdirs |-> {<<m.mountpoint, "a">>}] : m \in ForeignMounts} \cup
    {[mounts |-> <<AnchorMount, NewRoot(<<"memory">>).mount, m>>,
      dirs |-> {<<NewRoot(<<"memory">>).mount.mountpoint>>, <<m.mountpoint>>},
      cgdirs |-> {<<NewRoot(<<"memory">>).mount.mountpoint, "a">>,
                  <<m.mountpoint, "a">>}] : m \in ForeignMounts} \cup
    {[mounts |-> <<AnchorMount, NewRoot(<<"cpu", "memory">>).mount>>,
      dirs |-> {<<NewRoot(<<"cpu", "memory">>).mount.mountpoint>>},
      cgdirs |-> {<<NewRoot(<<"cpu", "memory">>).mount.mountpoint, "a">>}]}

SnapInit ==
    /\ registry = <<>>
    /\ \E k \in SnapKernels :
          mounts = k.mounts /\ dirs = k.dirs /\ cgdirs = k.cgdirs
    /\ attached = {}
    /\ alive = Pids
    /\ signalled = {}
    /\ ignoring = {}
    /\ rm = Idle
    /\ last = NoOutcome
    /\ crashed = FALSE
    /\ threads = NoThreads
    /\ NoStorage

\* ---------------------------------------------------------------- lookups
LookupWithin(op, item, nodes) ==
    /\ Ready
    /\ Len(RegistryGet(registry, item)) <= nodes
    /\ registry' = RegistryGet(registry, item)
    /\ last' = [NoOutcome EXCEPT !.op = op, !.item = item,
                                 !.node = RegistryHandle(registry, item)]
    /\ UNCHANGED <<mounts, dirs, cgdirs, attached, alive, signalled, ignoring,
                   rm, crashed>>
    /\ UNCHANGED <<storage, threads>>

Lookup(op, item) == LookupWithin(op, item, MaxNodes)

\* TCgroup::Get(name, parent), in a registry of at most nodes nodes and level
\* levels below a root.
GetWithin(name, parent, nodes, level) ==
    /\ IF parent = NoParent THEN TRUE ELSE Level(registry, parent) < level
    /\ LookupWithin("Get", NewCgroup(name, parent), nodes)

\* TCgroup::Get(name, parent)
Get(name, parent) == GetWithin(name, parent, MaxNodes, MaxLevel)

\* TCgroup::GetRoot(mount, subsystems)
GetRootAt(mount, subsystems) == Lookup("GetRoot", NewRootAt(mount, subsystems))

\* TCgroup::GetRoot(subsystem)
GetRoot(subsystem) == Lookup("GetRoot", NewRoot(<<subsystem>>))

\* TCgroup::FindChildren() on the node of handle n
FindChildren(n) ==
    /\ Ready
    /\ IF ~HasMount(registry, n)
       THEN Crash("FindChildren", n) /\ UNCHANGED registry
       ELSE LET r == FindChildrenRun(registry, Kernel, n)
            IN /\ Len(r.reg) <= MaxNodes
               /\ \A i \in 1..Len(r.reg) : Len(r.reg[i].children) <= MaxChildren
               /\ registry' = r.reg
               /\ last' = [NoOutcome EXCEPT !.op = "FindChildren", !.node = n,
                                            !.list = r.ret]
               /\ UNCHANGED crashed
    /\ UNCHANGED <<mounts, dirs, cgdirs, attached, alive, signalled, ignoring, rm>>
    /\ UNCHANGED <<storage, threads>>

\* TCgroupSnapshot::TCgroupSnapshot(), in a registry of at most nodes nodes
\* with at most children child entries each.
Snapshot(nodes, children) ==
    /\ Ready
    /\ LET r == SnapshotRun(registry, Kernel)
       IN /\ Len(r.reg) <= nodes
          /\ \A i \in 1..Len(r.reg) : Len(r.reg[i].children) <= children
          /\ registry' = r.reg
          /\ last' = [NoOutcome EXCEPT !.op = "Snapshot", !.list = r.cgroups,
                                       !.map = r.subsystems, !.walks = r.walks]
    /\ UNCHANGED <<mounts, dirs, cgdirs, attached, alive, signalled, ignoring,
                   rm, crashed>>
    /\ UNCHANGED <<storage, threads>>

\* ------------------------------------------------------- kernel operations
\* TCgroup::Create() on the node of handle n
Create(n) ==
    /\ Ready
    /\ IF ~HasMount(registry, n)
       THEN \E k \in {CreateCrash(Kernel, f) : f \in SUBSET FaultPoints(registry, n)} :
               /\ mounts' = k.mounts
               /\ Crash("Create", n)
               /\ UNCHANGED <<dirs, cgdirs>>
       ELSE \E k \in {CreateRun(registry, n, Kernel, f) :
                          f \in SUBSET FaultPoints(registry, n)} :
               /\ mounts' = k.mounts
               /\ dirs' = k.dirs
               /\ cgdirs' = k.cgdirs
               /\ last' = [NoOutcome EXCEPT
                      !.op = "Create", !.node = n, !.ret = CreateRet(k),
                      !.calls = k.calls,
                      !.existed = FolderExists(Kernel, Path(registry, n)),
                      !.mounted = MountPresent(Kernel,
                                      registry[RootOf(registry, n)].mount),
                      !.anchored = MountPresent(Kernel, AnchorMount),
                      !.changed = Changed(k)]
               /\ UNCHANGED crashed
    /\ UNCHANGED <<registry, attached, alive, signalled, ignoring, rm>>
    /\ UNCHANGED <<storage, threads>>

\* Create() on the root of handle n, entered by thread t: the scan of the
\* mount table that TMountSnapshot read.
CreateScan(t, n) ==
    /\ Ready
    /\ threads[t].pc = "idle"
    /\ IsRoot(registry[n]) /\ HasMount(registry, n)
    /\ threads' = [threads EXCEPT ![t] =
           [pc |-> IF MountPresent(Kernel, registry[n].mount) THEN "done"
                   ELSE IF ~MountPresent(Kernel, AnchorMount) THEN "root.Mount"
                   ELSE "Exists",
            node |-> n,
            mount_root |-> ~MountPresent(Kernel, AnchorMount)]]
    /\ UNCHANGED <<cgroupVars, storage, last>>

\* if (mount_root) root.Mount()
CreateMountRoot(t) ==
    /\ threads[t].pc = "root.Mount"
    /\ mounts' = Mount(Kernel, AnchorMount, {}).mounts
    /\ threads' = [threads EXCEPT ![t].pc = "Exists"]
    /\ UNCHANGED <<registry, dirs, cgdirs, attached, alive, signalled, ignoring,
                   rm, crashed, storage, last>>

\* if (!f.Exists())
CreateExists(t) ==
    /\ threads[t].pc = "Exists"
    /\ threads' = [threads EXCEPT ![t].pc =
           IF FolderExists(Kernel, Path(registry, threads[t].node))
           THEN "mount->Mount" ELSE "f.Create"]
    /\ UNCHANGED <<cgroupVars, storage, last>>

\* f.Create(mode)
CreateFolder(t) ==
    /\ threads[t].pc = "f.Create"
    /\ LET k == Mkdir(Kernel, Path(registry, threads[t].node), {})
       IN dirs' = k.dirs /\ cgdirs' = k.cgdirs
    /\ threads' = [threads EXCEPT ![t].pc = "mount->Mount"]
    /\ UNCHANGED <<registry, mounts, attached, alive, signalled, ignoring,
                   rm, crashed, storage, last>>

\* mount->Mount(), and the return
CreateMount(t) ==
    /\ threads[t].pc = "mount->Mount"
    /\ mounts' = Mount(Kernel, registry[threads[t].node].mount, {}).mounts
    /\ threads' = [threads EXCEPT ![t].pc = "done"]
    /\ UNCHANGED <<registry, dirs, cgdirs, attached, alive, signalled, ignoring,
                   rm, crashed, storage, last>>

\* TCgroup::Attach(pid) on the node of handle n
Attach(n, pid) ==
    /\ Ready
    /\ IF ~IsRoot(registry[n]) /\ ~HasMount(registry, n)
       THEN Crash("Attach", n) /\ UNCHANGED attached
       ELSE LET k == AttachRun(registry, n, Kernel, pid, alive)
            IN /\ attached' = k.attached
               /\ last' = [NoOutcome EXCEPT
                      !.op = "Attach", !.node = n, !.pid = pid,
                      !.ret = AttachRet(k), !.calls = k.calls,
                      !.existed = FolderExists(Kernel, Path(registry, n)),
                      !.mounted = MountPresent(Kernel,
                                      registry[RootOf(registry, n)].mount),
                      !.tasks = TasksOf(Kernel, Path(registry, n))]
               /\ UNCHANGED crashed
    /\ UNCHANGED <<registry, mounts, dirs, cgdirs, alive, signalled, ignoring, rm>>
    /\ UNCHANGED <<storage, threads>>

\* TTask::Start() with the leaf cgroups of the environment: the child pid is
\* created suspended, SyncTaskCgroups attaches it, and it is resumed unless
\* that failed, in which case Abort() ends it.
Start(leaves, pid) ==
    /\ Ready
    /\ leaves # {}
    /\ \A n \in leaves : ~IsRoot(registry[n]) /\ HasMount(registry, n)
    /\ \A n1, n2 \in leaves :
          RootOf(registry, n1) = RootOf(registry, n2) => n1 = n2
    /\ pid \in alive
    /\ \A e \in attached : e[2] # pid
    /\ LET sync == SyncTaskCgroups(registry, LeafSeq(leaves), Kernel, pid, alive)
           aborted == sync.ret # "Success"
       IN /\ attached' = IF aborted THEN {e \in sync.k.attached : e[2] # pid}
                         ELSE sync.k.attached
          /\ alive' = IF aborted THEN alive \ {pid} ELSE alive
          /\ last' = [NoOutcome EXCEPT
                 !.op = "Start", !.pid = pid, !.list = LeafSeq(leaves),
                 !.ret = IF aborted THEN "Aborted" ELSE "Resumed",
                 !.calls = sync.k.calls]
    /\ UNCHANGED <<registry, mounts, dirs, cgdirs, signalled, ignoring, rm, crashed>>
    /\ UNCHANGED <<storage, threads>>

\* TCgroup::IsEmpty() on the node of handle n; faults: whether the read of the
\* tasks file may fail for a reason outside the model (EMFILE, ENOMEM, EIO).
IsEmptyOp(n, faults) ==
    /\ Ready
    /\ IF ~HasMount(registry, n)
       THEN Crash("IsEmpty", n)
       ELSE \E fault \in faults :
               /\ last' = [NoOutcome EXCEPT
                      !.op = "IsEmpty", !.node = n,
                      !.ret = IF IsEmpty(Kernel, Path(registry, n), fault)
                              THEN "true" ELSE "false",
                      !.existed = FolderExists(Kernel, Path(registry, n)),
                      !.tasks = TasksOf(Kernel, Path(registry, n))]
               /\ UNCHANGED crashed
    /\ UNCHANGED <<registry, mounts, dirs, cgdirs, attached, alive, signalled,
                   ignoring, rm>>
    /\ UNCHANGED <<storage, threads>>

\* ------------------------------------------------------------ TCgroup::Remove
\* Remove() on the node of handle n, up to its loop: a root is unmounted.
RemoveStart(n) ==
    /\ Ready
    /\ IF ~HasMount(registry, n)
       THEN Crash("Remove", n) /\ UNCHANGED <<mounts, rm>>
       ELSE LET k == IF IsRoot(registry[n])
                     THEN Umount(Kernel, registry[n].mount) ELSE Kernel
            IN /\ mounts' = k.mounts
               /\ rm' = [pc |-> IF IsRoot(registry[n]) THEN "rmdir" ELSE "check",
                         node |-> n, calls |-> k.calls,
                         existed |-> FolderExists(Kernel, Path(registry, n)),
                         changed |-> Changed(k)]
               /\ last' = [NoOutcome EXCEPT !.op = "RemoveStart", !.node = n]
               /\ UNCHANGED crashed
    /\ UNCHANGED <<registry, dirs, cgdirs, attached, alive, signalled, ignoring>>
    /\ UNCHANGED <<storage, threads>>

\* while (!IsEmpty())
RemoveCheck(faults) ==
    /\ ~crashed
    /\ rm.pc = "check"
    /\ \E fault \in faults :
          rm' = [rm EXCEPT !.pc = IF IsEmpty(Kernel, Path(registry, rm.node), fault)
                                  THEN "rmdir" ELSE "kill"]
    /\ last' = [NoOutcome EXCEPT !.op = "RemoveCheck", !.node = rm.node]
    /\ UNCHANGED <<registry, mounts, dirs, cgdirs, attached, alive, signalled,
                   ignoring, crashed>>
    /\ UNCHANGED <<storage, threads>>

\* Kill(SIGINT): every pid read from tasks is signalled.
RemoveKill(faults) ==
    /\ ~crashed
    /\ rm.pc = "kill"
    /\ \E fault \in faults :
          LET targets == KillTargets(registry, rm.node, Kernel, fault)
          IN /\ signalled' = signalled \cup targets
             /\ rm' = [rm EXCEPT
                    !.pc = "check",
                    !.calls = @ \cup {KillCall(Path(registry, rm.node), pid, TRUE) :
                                        pid \in targets}]
    /\ last' = [NoOutcome EXCEPT !.op = "RemoveKill", !.node = rm.node]
    /\ UNCHANGED <<registry, mounts, dirs, cgdirs, attached, alive, ignoring,
                   crashed>>
    /\ UNCHANGED <<storage, threads>>

\* Remove() returning what its rmdir returned.
RemoveRetOfRmdir(k) ==
    IF \E c \in k.calls : c.call = "rmdir" /\ ~c.ok THEN "Unknown" ELSE "Success"

\* What Remove() returns: TError() on every path.
RemoveRet(k) == "Success"

\* TFolder f(Path()); f.Remove(); return TError();
RemoveRmdir ==
    /\ ~crashed
    /\ rm.pc = "rmdir"
    /\ LET k == Rmdir(Kernel, Path(registry, rm.node))
       IN /\ dirs' = k.dirs
          /\ cgdirs' = k.cgdirs
          /\ last' = [NoOutcome EXCEPT
                 !.op = "Remove", !.node = rm.node, !.ret = RemoveRet(k),
                 !.calls = rm.calls \cup k.calls,
                 !.existed = rm.existed,
                 !.tasks = TasksOf(Kernel, Path(registry, rm.node)),
                 !.changed = rm.changed \/ Changed(k)]
    /\ rm' = Idle
    /\ UNCHANGED <<registry, mounts, attached, alive, signalled, ignoring, crashed>>
    /\ UNCHANGED <<storage, threads>>

\* ------------------------------------------------------------- environment
\* A process that was sent SIGINT and does not ignore it exits; the kernel
\* drops it from every tasks file.
TaskExit(pid) ==
    /\ pid \in alive
    /\ pid \in signalled
    /\ pid \notin ignoring
    /\ alive' = alive \ {pid}
    /\ attached' = {e \in attached : e[2] # pid}
    /\ last' = [NoOutcome EXCEPT !.op = "TaskExit", !.pid = pid]
    /\ UNCHANGED <<registry, mounts, dirs, cgdirs, signalled, ignoring, rm, crashed>>
    /\ UNCHANGED <<storage, threads>>

\* ------------------------------------------------------------ specification
Lookups ==
    \/ \E name \in ChildNames, parent \in Handles \cup {NoParent} : Get(name, parent)
    \/ \E subsystems \in SubsystemVectors :
          \E mount \in MountsFor(subsystems) : GetRootAt(mount, subsystems)
    \/ \E subsystem \in SubsystemNames : GetRoot(subsystem)
    \/ \E n \in Handles : FindChildren(n)

Operations ==
    \/ \E n \in Handles : Create(n)
    \/ \E n \in Handles, pid \in Pids : Attach(n, pid)
    \/ \E n \in Handles : RemoveStart(n)
    \/ RemoveRmdir
    \/ \E pid \in Pids : TaskExit(pid)

Next ==
    \/ Lookups
    \/ Operations
    \/ \E n \in Handles : IsEmptyOp(n, BOOLEAN)
    \/ RemoveCheck(BOOLEAN)
    \/ RemoveKill(BOOLEAN)

Spec == Init /\ [][Next]_vars

\* The same program where every read of a tasks file that exists is answered,
\* the thread inside Remove() keeps running and a signalled process that does
\* not ignore SIGINT exits.
NextLive ==
    \/ Lookups
    \/ Operations
    \/ \E n \in Handles : IsEmptyOp(n, {FALSE})
    \/ RemoveCheck({FALSE})
    \/ RemoveKill({FALSE})

LiveSpec ==
    /\ Init
    /\ [][NextLive]_vars
    /\ WF_vars(RemoveCheck({FALSE}))
    /\ WF_vars(RemoveKill({FALSE}))
    /\ WF_vars(RemoveRmdir)
    /\ \A pid \in Pids : WF_vars(TaskExit(pid))

\* The registry on its own: only lookups, in a larger and deeper registry.
DeepNext ==
    \/ \E name \in ChildNames, parent \in Handles \cup {NoParent} :
          GetWithin(name, parent, DeepNodes, DeepLevel)
    \/ \E subsystems \in SubsystemVectors :
          \E mount \in MountsFor(subsystems) :
             LookupWithin("GetRoot", NewRootAt(mount, subsystems), DeepNodes)
    \/ \E subsystem \in SubsystemNames :
          LookupWithin("GetRoot", NewRoot(<<subsystem>>), DeepNodes)

DeepSpec == Init /\ [][DeepNext]_vars

\* Container starts: the launcher looks up the root and the leaf cgroup of
\* each subsystem, creates the leaves and starts a task in them.
LaunchNext ==
    \/ \E name \in ChildNames, parent \in Handles :
          GetWithin(name, parent, LaunchNodes, LaunchLevel)
    \/ \E subsystem \in SubsystemNames :
          LookupWithin("GetRoot", NewRoot(<<subsystem>>), LaunchNodes)
    \/ \E n \in Handles : Create(n)
    \/ \E leaves \in SUBSET Handles, pid \in Pids : Start(leaves, pid)

LaunchSpec == Init /\ [][LaunchNext]_vars

\* AllocLoop on its own, with files that come and go at its path.
LoopInit == NoCgroups /\ NoStorage /\ last = NoOutcome

LoopNext ==
    \/ \E path \in LoopPaths, size \in Sizes, faults \in SUBSET LoopFaults :
          AllocLoopOp(path, size, faults)
    \/ \E path \in LoopPaths, size \in Sizes : ForeignCreate(path, size)
    \/ \E path \in LoopPaths : ForeignRemove(path)

LoopSpec == LoopInit /\ [][LoopNext]_vars

\* The functions of util/ on their own.
UtilInit == NoCgroups /\ NoStorage /\ last = NoOutcome

\* RetryBusy, RetryFailed and SleepWhile with handlers of every behaviour.
RetryNext ==
    \/ \E times \in (0 - 1)..MaxTimes, errno \in Errnos, handler \in Handlers,
          interrupted \in 0..MaxTimes :
          RetryBusyOp(times, errno, handler, interrupted)
    \/ \E times \in (0 - 1)..MaxTimes, handler \in Handlers,
          interrupted \in 0..MaxTimes :
          RetryFailedOp(times, handler, interrupted)
    \/ \E timeoMs \in (0 - MaxTimeo)..MaxTimeo, handler \in Handlers,
          interrupted \in 0..MaxTimes :
          SleepWhileOp(timeoMs, handler, interrupted)

RetrySpec == UtilInit /\ [][RetryNext]_vars

UnitNext == \E str \in UnitStrings : StringWithUnitToUint64Op(str)

UnitSpec == UtilInit /\ [][UnitNext]_vars

\* Threads that call Create() on roots, each at its own pace.
RaceNext ==
    \/ \E subsystem \in SubsystemNames : GetRoot(subsystem)
    \/ \E t \in ThreadIds, n \in Handles : CreateScan(t, n)
    \/ \E t \in ThreadIds : CreateMountRoot(t)
    \/ \E t \in ThreadIds : CreateExists(t)
    \/ \E t \in ThreadIds : CreateFolder(t)
    \/ \E t \in ThreadIds : CreateMount(t)

RaceSpec == Init /\ [][RaceNext]_vars

\* Snapshots of a mount table, between lookups that register nodes.
SnapNext ==
    \/ \E name \in ChildNames, parent \in Handles \cup {NoParent} :
          GetWithin(name, parent, SnapNodes, MaxLevel)
    \/ \E subsystems \in SubsystemVectors :
          \E mount \in MountsFor(subsystems) :
             LookupWithin("GetRoot", NewRootAt(mount, subsystems), SnapNodes)
    \/ \E subsystem \in SubsystemNames :
          LookupWithin("GetRoot", NewRoot(<<subsystem>>), SnapNodes)
    \/ Snapshot(SnapNodes, SnapChildren)

SnapSpec == SnapInit /\ [][SnapNext]_vars

\* The volume manager on its own.
VolumeInit == NoCgroups /\ NoStorage /\ last = NoOutcome

VolumeNext ==
    \/ \E id \in VolumeIds, built \in BOOLEAN : VolumeCreate(id, built)
    \/ \E id \in VolumeIds, container \in ContainerIds, required \in BOOLEAN :
          LinkVolume(id, container, required)
    \/ \E id \in VolumeIds, container \in ContainerIds : UnlinkVolume(id, container)
    \/ \E id \in VolumeIds : VolumeDelete(id)
    \/ \E id \in VolumeIds : Tune(id)
    \/ \E container \in ContainerIds : ContainerExit(container)

VolumeSpec == VolumeInit /\ [][VolumeNext]_vars

\* ================================================================== claims
LastNode == registry[last.node]
LastPath == Path(registry, last.node)
Issued(name) == {c \in last.calls : c.call = name}
Failed == {c \in last.calls : ~c.ok}

\* The inputs of two lookups are equal: the same parent and name, or two roots
\* with the same set of subsystems.
InputsEqual(c1, c2) ==
    \/ /\ c1.subsystems = <<>> /\ c2.subsystems = <<>>
       /\ c1.parent = c2.parent /\ c1.name = c2.name
    \/ /\ c1.subsystems # <<>> /\ c2.subsystems # <<>>
       /\ Range(c1.subsystems) = Range(c2.subsystems)

\* C1: lookups with equal inputs (same parent and name, or roots with the same
\* subsystem-set) return the same handle, a lookup returns a node that matches
\* its input, and the registry never holds two distinct nodes that compare equal.
C1_RegistryInterning ==
    /\ \A i, j \in Handles : InputsEqual(registry[i], registry[j]) => i = j
    /\ \A i, j \in Handles : CgroupEq(registry[i], registry[j]) => i = j
    /\ last.op \in {"Get", "GetRoot"} => InputsEqual(LastNode, last.item)

\* C2: Create() of a node whose directory (and, for a root, whose mount) already
\* exists issues no mkdir and no mount and leaves the mount table and the
\* directory tree as they were.
C2_CreateIdempotent ==
    (/\ last.op = "Create"
     /\ last.existed
     /\ IsRoot(LastNode) => last.mounted)
        => /\ Issued("mkdir") = {}
           /\ Issued("mount") = {}
           /\ ~last.changed

\* C3: Create() of a root mounts the tmpfs anchor only if the mount table does
\* not hold it, returns Success without a call if the root's own mount is in the
\* table, and otherwise issues mkdir exactly if the directory is missing and then
\* mounts; no mount of a root and no anchor is in the mount table twice.
C3_RootCreateMountsOnce ==
    /\ \A i, j \in 1..Len(mounts) : MountEq(mounts[i], mounts[j]) => i = j
    /\ (last.op = "Create" /\ IsRoot(LastNode)) =>
          /\ last.mounted => (last.calls = {} /\ last.ret = "Success" /\ ~last.changed)
          /\ ~last.mounted =>
                /\ (\E c \in Issued("mount") : c.arg = <<tmpfs>>) <=> ~last.anchored
                /\ (\E c \in Issued("mkdir") : c.arg = LastPath) <=> ~last.existed
                /\ \E c \in Issued("mount") : c.arg = LastPath

\* C3 witness: a root was created a second time, with its mount and the anchor
\* already in the table; and a root was created next to another mounted root.
C3_Witness ==
    /\ last.op = "Create" /\ IsRoot(LastNode) /\ last.mounted /\ last.anchored
    /\ Len(mounts) >= 2

\* C4: Create() returns an error whenever one of its calls failed, and Success
\* only if the directory of the node exists (and a root is mounted) on return.
C4_CreateReturnsErrors ==
    last.op = "Create" =>
        /\ Failed # {} => last.ret # "Success"
        /\ last.ret = "Success" =>
              /\ FolderExists(Kernel, LastPath)
              /\ IsRoot(LastNode) => MountPresent(Kernel, LastNode.mount)

\* C5: Remove() of a non-root issues its rmdir only when no task is attached to
\* the cgroup any more.
C5_RmdirOnlyWhenDrained ==
    (last.op = "Remove" /\ ~IsRoot(LastNode)) => last.tasks = {}

\* C6: Remove() terminates, also when a task of the cgroup never exits.
C6_RemoveTerminates == (rm.pc # "idle") ~> (rm.pc = "idle")

\* The cgroup under removal can be drained: it is a directory of a mounted
\* cgroup filesystem without sub-cgroups, and none of its tasks ignores SIGINT.
Drainable ==
    /\ rm.pc = "check"
    /\ rm.existed
    /\ InCgroupFs(Kernel, Path(registry, rm.node))
    /\ Subfolders(Kernel, Path(registry, rm.node)) = {}
    /\ TasksOf(Kernel, Path(registry, rm.node)) \cap ignoring = {}

Removed ==
    /\ rm.pc = "idle"
    /\ last.op = "Remove"
    /\ ~FolderExists(Kernel, LastPath)

C8_RemoveAbsentIsNoop ==
    (last.op = "Remove" /\ ~last.existed)
        => /\ last.ret = "Success"
           /\ Issued("kill") = {}
           /\ ~last.changed
           /\ ~FolderExists(Kernel, LastPath)

\* C8 witness: Remove() returned for a node that had been removed before, and for
\* a root: its directory was absent.
C8_Witness ==
    /\ last.op = "Remove" /\ ~last.existed /\ IsRoot(LastNode)
    /\ \E c \in Issued("umount") : ~c.ok
    /\ \E c \in Issued("rmdir") : ~c.ok
    /\ Len(mounts) > 0

\* C9: Attach(pid) of a non-root does not return Success when the write to
\* cgroup.procs failed.
C9_AttachPropagatesFailure ==
    (last.op = "Attach" /\ ~IsRoot(LastNode) /\ Failed # {}) => last.ret # "Success"

\* C10: IsEmpty() returns true exactly when no task is attached to the cgroup.
C10_IsEmptyExact ==
    last.op = "IsEmpty" => (last.ret = "true" <=> last.tasks = {})

\* C11: an Attach(pid) of a non-root that returned Success leaves pid in the
\* tasks of the cgroup, next to every pid that was there before.
C11_AttachAppends ==
    (last.op = "Attach" /\ ~IsRoot(LastNode) /\ last.ret = "Success")
        => /\ last.pid \in TasksOf(Kernel, LastPath)
           /\ last.tasks \subseteq TasksOf(Kernel, LastPath)

\* Equality as the specification words it: the same parent and name, or two
\* roots with the same set of subsystems.
SpecifiedEq(c1, c2) ==
    \/ c1.parent # NoParent /\ c1.parent = c2.parent /\ c1.name = c2.name
    \/ /\ IsRoot(c1) /\ IsRoot(c2)
       /\ Range(c1.subsystems) = Range(c2.subsystems)

\* The nodes compared so far: those registered and the one last looked up.
Compared ==
    Range(registry) \cup (IF last.op \in {"Get", "GetRoot"} THEN {last.item} ELSE {})

\* C12: two nodes compare equal exactly if they have the same parent and name or
\* are roots with the same set of subsystems, in whatever order the subsystems
\* were listed and whatever their mounts.
C12_EqualityBySubsystemSet ==
    \A c1, c2 \in Compared : CgroupEq(c1, c2) <=> SpecifiedEq(c1, c2)

\* The k-th ancestor of node n, and the names on the chain from the root to n.
RECURSIVE Ancestor(_, _, _)
Ancestor(reg, n, k) == IF k = 0 THEN n ELSE Ancestor(reg, reg[n].parent, k - 1)
ChainNames(reg, n) ==
    [i \in 1..Level(reg, n) |-> reg[Ancestor(reg, n, Level(reg, n) - i)].name]
RECURSIVE JoinNames(_)
JoinNames(names) ==
    IF names = <<>> THEN "" ELSE "/" \o Head(names) \o JoinNames(Tail(names))

\* C13: Path() of a root is the mount point of its mount; Path() of a non-root is
\* Path() of its parent, "/" and its name, which is the mount point of its root
\* followed by the names on the chain from the root down to the node.
C13_PathComposition ==
    \A n \in Handles :
        HasMount(registry, n) =>
            /\ IsRoot(registry[n]) =>
                  PathName(registry, n) = registry[n].mount.mountpoint
            /\ ~IsRoot(registry[n]) =>
                  PathName(registry, n) =
                      PathName(registry, registry[n].parent) \o "/" \o registry[n].name
            /\ PathName(registry, n) =
                  registry[RootOf(registry, n)].mount.mountpoint
                      \o JoinNames(ChainNames(registry, n))

\* C13 witness: a node three levels below a root of a mount was looked up.
C13_Witness ==
    /\ last.op = "Get"
    /\ HasMount(registry, last.node)
    /\ Level(registry, last.node) = DeepLevel
    /\ PathName(registry, last.node) = tmpfs \o "/cpu/a/a/a"

\* The mounts of the table with a known controller that are the first of their
\* controller set, and the cgroup directories below them.
FirstOfSet(k) ==
    {i \in 1..Len(k.mounts) :
        /\ k.mounts[i].flags \cap supported_subsystems # {}
        /\ \A j \in 1..(i - 1) :
              k.mounts[j].flags \cap supported_subsystems
                  # k.mounts[i].flags \cap supported_subsystems}
CgroupDirs(k) ==
    UNION {{<<k.mounts[i].mountpoint>>}
               \cup {p \in k.cgdirs : p[1] = k.mounts[i].mountpoint} :
           i \in FirstOfSet(k)}

\* C14: the nodes of a snapshot are the cgroup directories, roots and
\* descendants, of the mounts with a known controller (of two mounts with the
\* same controllers, the first), no directory missing and no node beside them.
C14_SnapshotComplete ==
    last.op = "Snapshot" =>
        {Path(registry, n) : n \in Range(last.list)} = CgroupDirs(Kernel)

\* C15: of two mounts with the same known controllers the snapshot skips the
\* second: it adds no node to the flat list, is not walked and adds no child
\* entry to the root.
C15_SnapshotSkipsDuplicate ==
    last.op = "Snapshot" =>
        \A i, j \in 1..Len(last.walks) :
            (i < j /\ last.walks[i].cs = last.walks[j].cs) =>
                /\ ~last.walks[j].walked
                /\ last.walks[j].added = <<>>
                /\ last.walks[j].children = 0

\* C16: the root that GetRoot(subsystem) returns has the path
\* tmpfs/<comma-joined names> and a mount of type cgroup whose flags are the
\* names, whatever lookups came before.
C16_RootLayout ==
    (/\ last.op = "GetRoot"
     /\ Len(last.item.subsystems) = 1
     /\ last.item = NewRoot(last.item.subsystems))
        => /\ PathName(registry, last.node)
                 = tmpfs \o "/" \o CommaSeparatedList(Range(last.item.subsystems))
           /\ LastNode.mount.vfstype = "cgroup"
           /\ LastNode.mount.flags = Range(last.item.subsystems)

\* The state changes the volume state order allows: the chain from INITIAL to
\* DESTROYED, READY to TUNING and back, BUILDING to UNREADY, READY to UNLINKED
\* and UNLINKED on to TO_DESTROY.
StateOrder ==
    {<<"INITIAL", "CONFIGURED">>, <<"CONFIGURED", "BUILDING">>,
     <<"BUILDING", "READY">>, <<"BUILDING", "UNREADY">>,
     <<"READY", "TUNING">>, <<"TUNING", "READY">>,
     <<"READY", "UNLINKED">>, <<"READY", "TO_DESTROY">>,
     <<"UNLINKED", "TO_DESTROY">>, <<"TO_DESTROY", "DESTROYING">>,
     <<"DESTROYING", "DESTROYED">>}

\* C17: every volume starts in INITIAL, every change of its state is a step
\* of the state order, and it is in UNREADY only after it was in BUILDING.
C17_VolumeStateMonotonic ==
    \A id \in DOMAIN Volumes :
        LET trace == Volumes[id].trace
        IN /\ trace[1] = "INITIAL"
           /\ \A i \in 1..(Len(trace) - 1) :
                  <<trace[i], trace[i + 1]>> \in StateOrder
           /\ \A i \in 1..Len(trace) :
                  trace[i] = "UNREADY"
                      => \E j \in 1..(i - 1) : trace[j] = "BUILDING"

\* A required link of a live container holds the volume.
Held(v) ==
    \E i \in 1..Len(v.Links) :
        v.Links[i].Required /\ v.Links[i].Container \in containers

C20_AllocLoopAllOrNothing ==
    last.op = "AllocLoop"
        => IF last.ret = "Success"
           THEN /\ FileAt(last.before, last.path) = {}
                /\ FileAt(files, last.path) =
                       {[path |-> last.path, size |-> last.size,
                         formatted |-> TRUE, creator |-> "AllocLoop"]}
           ELSE files = last.before

\* The number that the digits of str spell, as limbs without a top: one more
\* limb for each digit.
RECURSIVE DecimalFrom(_, _, _)
DecimalFrom(str, i, acc) ==
    IF i > Len(str) \/ ~IsDigit(str[i]) THEN acc
    ELSE LET r == MulAddFrom(acc, 1, 10, DigitValue(str[i]))
         IN DecimalFrom(str, i + 1, r.limbs \o <<r.carry>>)

\* v * 2^(10 * n), one more limb for each factor.
RECURSIVE Times1024(_, _)
Times1024(v, n) ==
    IF n = 0 THEN v
    ELSE LET r == MulAddFrom(v, 1, 1024, 0)
         IN Times1024(r.limbs \o <<r.carry>>, n - 1)

\* The limbs without zeros at the top, so that numbers of different widths
\* compare.
RECURSIVE Trim(_)
Trim(v) ==
    IF v = <<>> THEN v
    ELSE IF v[Len(v)] = 0 THEN Trim(SubSeq(v, 1, Len(v) - 1)) ELSE v

\* The digits at the head of str, and what follows them.
RECURSIVE DigitsOf(_)
DigitsOf(str) ==
    IF str = <<>> \/ ~IsDigit(Head(str)) THEN <<>>
    ELSE <<Head(str)>> \o DigitsOf(Tail(str))

SuffixOf(str) == SubSeq(str, Len(DigitsOf(str)) + 1, Len(str))

\* The multiplier the suffix stands for, as a power of 2^10.
PowerOf(suffix) ==
    IF suffix \in {<<"K">>, <<"k">>} THEN 1
    ELSE IF suffix \in {<<"M">>, <<"m">>} THEN 2
    ELSE IF suffix \in {<<"G">>, <<"g">>} THEN 3
    ELSE 0

Product(str) == Times1024(DecimalFrom(str, 1, <<0>>), PowerOf(SuffixOf(str)))

HasUnit(str) ==
    DigitsOf(str) # <<>> /\ SuffixOf(str) \in Suffixes \ {<<"b">>}

\* C21: for a decimal number n with the suffix K, M or G in either case the
\* call succeeds with n * 2^10, n * 2^20 or n * 2^30, and with no suffix
\* with n, wherever that result is a 64-bit number (C22 is about the others).
C21_UnitIsBinaryMultiplier ==
    (last.op = "StringWithUnitToUint64" /\ HasUnit(last.str)
        /\ Len(Trim(Product(last.str))) <= 4)
        => /\ last.ret = "Success"
           /\ Trim(last.value) = Trim(Product(last.str))

\* A number of more than 32 bits with the suffix G, whose product fits 64 bits.
C21_Witness ==
    /\ last.op = "StringWithUnitToUint64"
    /\ last.ret = "Success"
    /\ SuffixOf(last.str) = <<"G">>
    /\ Len(Trim(DecimalFrom(last.str, 1, <<0>>))) = 3
    /\ Len(Trim(Product(last.str))) = 4
    /\ Trim(last.value) = Trim(Product(last.str))

\* C22: a number whose product with the multiplier of its suffix is above
\* 2^64 - 1 is answered with an error, not with a value.
C22_NoWrappedValue ==
    (last.op = "StringWithUnitToUint64" /\ HasUnit(last.str)
        /\ Len(Trim(Product(last.str))) > 4)
        => last.ret # "Success"

\* C24: the subsystem map of a snapshot binds every controller name to the
\* handle of that name, never to one named after the comma-joined list of a
\* mount with several controllers.
C24_SnapshotMapNames ==
    last.op = "Snapshot" => \A c \in DOMAIN last.map : last.map[c] = c

\* C25: every node of the registry without a parent has a mount, whatever
\* lookups were made.
C25_RootsHaveMount ==
    \A n \in Handles : IsRoot(registry[n]) => registry[n].mount # NoMount

\* C26: no node is twice in the flat list of a snapshot.
C26_SnapshotListsOnce ==
    last.op = "Snapshot"
        => \A i, j \in 1..Len(last.list) :
               last.list[i] = last.list[j] => i = j

Max(a, b) == IF a >= b THEN a ELSE b

\* C27: RetryFailed, and SleepWhile through it, invokes the handler at least
\* once and at most max(times, 1) times, invokes it no more after an
\* invocation that returned 0, and returns 0 only if an invocation returned
\* 0, for every times.
C27_RetryFailedBounds ==
    last.op \in {"RetryFailed", "SleepWhile"}
        => /\ last.invoked >= 1
           /\ last.invoked <= Max(last.times, 1)
           /\ \A i \in 1..(last.invoked - 1) : last.handler[i].ret # 0
           /\ last.result = 0
                 => \E i \in 1..last.invoked : last.handler[i].ret = 0

\* C28: RetryBusy invokes the handler again only after an invocation that
\* failed with EBUSY, and when its last invocation succeeded or failed with
\* another error it returns what that invocation returned, whatever errno
\* was on entry.
C28_RetryBusyOnlyOnBusy ==
    last.op = "RetryBusy"
        => /\ \A i \in 1..(last.invoked - 1) :
                  last.handler[i].ret # 0 /\ last.handler[i].errno = "EBUSY"
           /\ (last.invoked >= 1 /\ last.handler[last.invoked].errno # "EBUSY")
                 => last.result = last.handler[last.invoked].ret

\* How many entries of the mount table are equal to m.
Mounted(m) == Cardinality({i \in 1..Len(mounts) : MountEq(mounts[i], m)})

\* C23: when two threads have both returned from Create() on the same root,
\* the mount of the root and the tmpfs anchor are each in the mount table
\* exactly once.
C23_ConcurrentCreateMountsOnce ==
    \A t1, t2 \in ThreadIds :
        (/\ t1 # t2
         /\ threads[t1].pc = "done" /\ threads[t2].pc = "done"
         /\ threads[t1].node = threads[t2].node)
            => /\ Mounted(registry[threads[t1].node].mount) = 1
               /\ Mounted(AnchorMount) = 1

====
